---- MODULE Spec2Model ----
(***************************************************************************)
(* State-machine model of the exam session engine, of the credential      *)
(* lifecycle and of the catalog administration of PDD_fastapi              *)
(* (src/pdd_app/api/exams.py, question.py, category.py, auth.py, user.py,  *)
(* admin.py, src/pdd_app/db/models.py).                                    *)
(*                                                                         *)
(* The exam engine has three specifications over the same store:           *)
(*   Spec      every request handler is one atomic step (the handlers are  *)
(*             `async def` bodies without an await, so one event loop runs *)
(*             each of them to completion);                                *)
(*   SpecConc  start_exam, answer_question and finish_exam are split into  *)
(*             their read phase and their commit, as they interleave when  *)
(*             several workers share the database;                         *)
(*   SpecAnswers  start_exam in one step and answer_question in its two,   *)
(*             with two unanswered questions to name.                      *)
(* The credential lifecycle has three:                                     *)
(*   SpecAuth          register, login, refresh, logout, identity          *)
(*                     resolution and the passing of time;                 *)
(*   SpecAccounts      register, login and the two update endpoints;       *)
(*   SpecAccountsConc  register split into its queries and its commit,     *)
(*                     interleaved with updates of e-mail and username.    *)
(* The catalog administration has one:                                     *)
(*   SpecCatalog  the handlers that need the admin role (questions,        *)
(*             categories, admin update of a user), from a small catalog.  *)
(***************************************************************************)
EXTENDS Integers, Sequences, FiniteSets, Bags, TLC

\* ---------------------------------------------------------------- constants
EXAM_QUESTIONS_COUNT == 20
PASSING_SCORE == 18

\* ------------------------------------------------------------------- bounds
\* cap on the rows of the exam table
MaxExams == 2
\* number of request slots that run concurrently in SpecConc
NumProcs == 2

VARIABLES
    users,          \* table user:          id -> [email, username, password, role]
    refresh_tokens, \* table refresh_token: bag of [user_id, token]
    category,       \* table category:      id -> [category_name]
    questions,      \* table question:      set of ids
    category_id,    \* column question.category_id: question id -> category id
    answer_options, \* table answer_option: set of ids (columns: OptionQuestion, OptionIsCorrect)
    sequences,      \* last id handed out by autoincrement: [category, question]
    exams,          \* table exam:          id -> [user_id, score, status, finished_at]
    exam_answers,   \* table exam_answer:   bag of [exam_id, question_id, selected_option_id, is_correct]
    now,            \* logical clock read by datetime.utcnow() when an exam is finished
    resp,           \* the response of the last request that returned
    req             \* SpecConc: per request slot, the handler's position and locals

vars == <<users, refresh_tokens, category, questions, category_id, answer_options, sequences, exams, exam_answers, now, resp, req>>

store == <<users, refresh_tokens, category, questions, category_id, answer_options, sequences, exams, exam_answers>>

\* ------------------------------------------------------------------ domains
Procs == 1..NumProcs

\* exam ids a request may name: every row that can exist, and one that cannot
ExamIdInputs == 1..(MaxExams + 1)
\* the catalog starts with the questions 1..MaxQuestionId: one more than an
\* exam samples
MaxQuestionId == EXAM_QUESTIONS_COUNT + 1
\* a populated initial store holds one exam with this many recorded answers
PreAnswered == EXAM_QUESTIONS_COUNT
\* question ids an answer may name: the questions not answered in the
\* populated initial exam, and one id that never existed
QuestionIdInputs == (PreAnswered + 1)..(MaxQuestionId + 1)
\* question ids a catalog edit may name: the same, and the last question
\* answered in the populated initial exam (unanswered in every exam started
\* later)
EditIdInputs == PreAnswered..(MaxQuestionId + 1)

\* question q is created with two options, exactly one of them correct:
\* 2q-1 (correct) and 2q (wrong).  No handler updates an option, so the
\* columns question_id and is_correct of a row are functions of its id.
CorrectOption(q) == 2 * q - 1
WrongOption(q) == 2 * q
OptionsOf(q) == {CorrectOption(q), WrongOption(q)}
OptionQuestion(o) == (o + 1) \div 2
OptionIsCorrect(o) == o % 2 = 1
\* option ids an answer may name: the options of the questions it may name
\* that exist, an option that never existed, and an option of another question
OptionIdInputs ==
    UNION { OptionsOf(q) : q \in (PreAnswered + 1)..MaxQuestionId }
        \cup {CorrectOption(MaxQuestionId + 1), CorrectOption(PreAnswered)}

\* ------------------------------------------------------------------- tables
in_progress == "in_progress"
completed == "completed"
failed == "failed"
ExamStatusChoices == {in_progress, completed, failed}

admin == "admin"
user == "user"

\* Exam(user_id=..., status=in_progress, score=0), finished_at NULL
NewExam(u) ==
    [user_id |-> u, score |-> 0, status |-> in_progress, finished_at |-> <<>>]

ExamAnswer(e, q, o, c) ==
    [exam_id |-> e, question_id |-> q, selected_option_id |-> o, is_correct |-> c]

RECURSIVE SumCopies(_)
SumCopies(S) ==
    IF S = {} THEN 0
    ELSE LET a == CHOOSE x \in S : TRUE
         IN CopiesIn(a, exam_answers) + SumCopies(S \ {a})

\* len(exam.exam_answers)
AnswerCount(e) ==
    SumCopies({ a \in BagToSet(exam_answers) : a.exam_id = e })

\* number of exam_answer rows of (exam, question)
AnswerRows(e, q) ==
    SumCopies({ a \in BagToSet(exam_answers) : a.exam_id = e /\ a.question_id = q })

\* db.delete(question): the ORM cascades to question_options and exam_answers
WithoutQuestion(bag, q) ==
    LET keep == { a \in BagToSet(bag) : a.question_id # q }
    IN [a \in keep |-> bag[a]]

\* ---------------------------------------------------------------- responses
NoResponse == [op |-> "none", status_code |-> 0, detail |-> "none"]

Error(op, code, detail) == [op |-> op, status_code |-> code, detail |-> detail]

Ok == [op |-> "ok", status_code |-> 200, detail |-> "ok"]

\* ------------------------------------------------------ password hashing
argon2 == "argon2"
bcrypt == "bcrypt"

\* a stored hash names its scheme and is accepted for one password only
Hash(scheme, password) == [scheme |-> scheme, secret |-> password]

\* auth.py: pwd_context = CryptContext(schemes=["argon2"]); hash_password
hash_password(password) == Hash(argon2, password)

\* user.py, admin.py: pwd_context = CryptContext(schemes=["bcrypt"]); pwd_context.hash
pwd_context_hash(password) == Hash(bcrypt, password)

\* auth.py verify_password: the argon2 context cannot identify a hash of
\* another scheme and raises (UnknownHashError)
verify_password(plain_password, hashed_password) ==
    IF hashed_password.scheme # argon2 THEN "UnknownHashError"
    ELSE IF hashed_password.secret = plain_password THEN "True" ELSE "False"

\* ------------------------------------------------------------ initial state
\* two registered users: user 1 is an ordinary user, user 2 an administrator
InitUsers ==
    << [email |-> "a@pdd", username |-> "ann", password |-> hash_password("secret1"), role |-> user],
       [email |-> "b@pdd", username |-> "bob", password |-> hash_password("secret1"), role |-> admin] >>

InitQuestions == 1..MaxQuestionId

\* two categories: the questions an exam of the populated store answered are
\* in the first, the remaining question in the second
CategoryNames == {"signs", "rules"}

InitCategory == (1 :> [category_name |-> "signs"]) @@ (2 :> [category_name |-> "rules"])

InitCategoryId == [q \in InitQuestions |-> IF q <= PreAnswered THEN 1 ELSE 2]

InitSequences == [category |-> 2, question |-> MaxQuestionId]

InitOptions == UNION { OptionsOf(q) : q \in InitQuestions }

\* the populated store: exam 1 of user 1 with answers to the questions
\* 1..PreAnswered, the first PreAnswered - InitScore of them wrong
InitScore == PASSING_SCORE - 1

InitExam == [NewExam(1) EXCEPT !.score = InitScore]

InitAnswers ==
    LET rows == { ExamAnswer(1, q,
                             IF q > PreAnswered - InitScore
                             THEN CorrectOption(q) ELSE WrongOption(q),
                             q > PreAnswered - InitScore) : q \in 1..PreAnswered }
    IN [a \in rows |-> 1]

Init ==
    /\ users = InitUsers
    /\ refresh_tokens = EmptyBag
    /\ category = InitCategory
    /\ questions = InitQuestions
    /\ category_id = InitCategoryId
    /\ answer_options = InitOptions
    /\ sequences = InitSequences
    /\ \/ exams = <<>> /\ exam_answers = EmptyBag
       \/ exams = <<InitExam>> /\ exam_answers = InitAnswers
    /\ now = 1
    /\ resp = NoResponse
    /\ req = [p \in Procs |-> [pc |-> "idle"]]

\* ----------------------------------------------------------------- helpers
ExamExists(e) == e \in DOMAIN exams

\* db.query(Exam).filter(user_id == u, status == in_progress).first()
HasActiveExam(u) ==
    \E e \in DOMAIN exams : exams[e].user_id = u /\ exams[e].status = in_progress

\* db.query(AnswerOption).filter(id == o, question_id == q).first()
\* faulty variant: the option is looked up by its id alone
OptionOf_AnyQuestion(q, o) == { opt \in answer_options : opt = o }

OptionOf(q, o) == { opt \in answer_options : opt = o /\ OptionQuestion(opt) = q }

\* the subsets of S obtained by leaving out m of its elements
RECURSIVE LeaveOut(_, _)
LeaveOut(S, m) ==
    IF m = 0 THEN {S}
    ELSE UNION { LeaveOut(S \ {x}, m - 1) : x \in S }

\* faulty variant: k draws with replacement (random.choices), so a question
\* may be drawn twice and fewer than k distinct questions come back
Samples_WithReplacement(S, k) ==
    LeaveOut(S, Cardinality(S) - k) \cup LeaveOut(S, Cardinality(S) - k + 1)

\* random.sample(all_questions, EXAM_QUESTIONS_COUNT): any k distinct questions
Samples(S, k) == LeaveOut(S, Cardinality(S) - k)

\* ------------------------------------------------------- start_exam (POST /exams/start)
\* faulty variant: the catalog-size check made before the active-exam check
StartChecks_CatalogFirst(u) ==
    IF Cardinality(questions) < EXAM_QUESTIONS_COUNT
    THEN Error("start", 400, "not_enough_questions")
    ELSE IF HasActiveExam(u)
    THEN Error("start", 400, "active_exam_exists")
    ELSE Ok

\* the checks of start_exam, in the order of the code
\* faulty variant: an exam of any status counts as active
StartChecks_AnyExamBlocks(u) ==
    IF \E e \in DOMAIN exams : exams[e].user_id = u
    THEN Error("start", 400, "active_exam_exists")
    ELSE IF Cardinality(questions) < EXAM_QUESTIONS_COUNT
    THEN Error("start", 400, "not_enough_questions")
    ELSE Ok

StartChecks(u) ==
    IF HasActiveExam(u)
    THEN Error("start", 400, "active_exam_exists")
    ELSE IF Cardinality(questions) < EXAM_QUESTIONS_COUNT
    THEN Error("start", 400, "not_enough_questions")
    ELSE Ok

\* faulty variant: an earlier exam row of the user is reset instead of a new
\* row being inserted
StartCommit_ReusesRow(u, selected_questions) ==
    LET mine == { e \in DOMAIN exams : exams[e].user_id = u }
        row == IF mine = {} THEN Len(exams) + 1 ELSE CHOOSE e \in mine : TRUE
    IN /\ exams' = IF mine = {}
                   THEN Append(exams, NewExam(u))
                   ELSE [exams EXCEPT ![row] = NewExam(u)]
       /\ resp' = [op |-> "start", status_code |-> 201, detail |-> "ok",
                   exam_id |-> row,
                   questions |-> selected_questions]
       /\ UNCHANGED <<users, refresh_tokens, category, questions, category_id, answer_options, sequences, exam_answers, now>>

\* db.add(new_exam); db.commit(); db.refresh(new_exam); build the response
StartCommit(u, selected_questions) ==
    /\ exams' = Append(exams, NewExam(u))
    /\ resp' = [op |-> "start", status_code |-> 201, detail |-> "ok",
                exam_id |-> Len(exams) + 1,
                questions |-> selected_questions]
    /\ UNCHANGED <<users, refresh_tokens, category, questions, category_id, answer_options, sequences, exam_answers, now>>

StartExam(u) ==
    /\ LET r == StartChecks(u)
       IN IF r # Ok
          THEN /\ resp' = r
               /\ UNCHANGED <<store, now>>
          ELSE /\ Len(exams) < MaxExams
               /\ \E sel \in Samples(questions, EXAM_QUESTIONS_COUNT) : StartCommit(u, sel)
    /\ UNCHANGED req

\* ------------------------------------------- answer_question (POST /exams/{id}/answer)
\* faulty variant: no check for an answer already recorded
AnswerChecks_NoDuplicateCheck(u, e, q, o) ==
    IF ~ExamExists(e)
    THEN Error("answer", 404, "exam_not_found")
    ELSE IF exams[e].user_id # u
    THEN Error("answer", 403, "not_your_exam")
    ELSE IF exams[e].status # in_progress
    THEN Error("answer", 400, "exam_already_finished")
    ELSE IF q \notin questions
    THEN Error("answer", 404, "question_not_found")
    ELSE IF OptionOf(q, o) = {}
    THEN Error("answer", 404, "option_not_found")
    ELSE Ok

\* faulty variant: no ownership check
AnswerChecks_NoOwnerCheck(u, e, q, o) ==
    IF ~ExamExists(e)
    THEN Error("answer", 404, "exam_not_found")
    ELSE IF exams[e].status # in_progress
    THEN Error("answer", 400, "exam_already_finished")
    ELSE IF q \notin questions
    THEN Error("answer", 404, "question_not_found")
    ELSE IF OptionOf(q, o) = {}
    THEN Error("answer", 404, "option_not_found")
    ELSE IF AnswerRows(e, q) > 0
    THEN Error("answer", 400, "already_answered")
    ELSE Ok

\* the checks of answer_question, in the order of the code
\* faulty variant: the recorded answer is looked up before the option
AnswerChecks_DuplicateBeforeOption(u, e, q, o) ==
    IF ~ExamExists(e) THEN Error("answer", 404, "exam_not_found")
    ELSE IF exams[e].user_id # u THEN Error("answer", 403, "not_your_exam")
    ELSE IF exams[e].status # in_progress THEN Error("answer", 400, "exam_already_finished")
    ELSE IF q \notin questions THEN Error("answer", 404, "question_not_found")
    ELSE IF AnswerRows(e, q) > 0 THEN Error("answer", 400, "already_answered")
    ELSE IF OptionOf(q, o) = {} THEN Error("answer", 404, "option_not_found")
    ELSE Ok

AnswerChecks(u, e, q, o) ==
    IF ~ExamExists(e)
    THEN Error("answer", 404, "exam_not_found")
    ELSE IF exams[e].user_id # u
    THEN Error("answer", 403, "not_your_exam")
    ELSE IF exams[e].status # in_progress
    THEN Error("answer", 400, "exam_already_finished")
    ELSE IF q \notin questions
    THEN Error("answer", 404, "question_not_found")
    ELSE IF OptionOf(q, o) = {}
    THEN Error("answer", 404, "option_not_found")
    ELSE IF AnswerRows(e, q) > 0
    THEN Error("answer", 400, "already_answered")
    ELSE Ok

\* is_correct = option.is_correct
IsCorrect(q, o) == OptionIsCorrect(CHOOSE opt \in OptionOf(q, o) : TRUE)

\* db.add(exam_answer); if is_correct: exam.score += 1; db.commit().
\* exam.score was loaded with the exam (score_read); the UPDATE writes the
\* value computed from it, and only when the answer is correct.
AnswerCommit(e, q, o, is_correct, score_read) ==
    /\ exam_answers' = exam_answers (+) SetToBag({ExamAnswer(e, q, o, is_correct)})
    /\ exams' = IF is_correct
                THEN [exams EXCEPT ![e].score = score_read + 1]
                ELSE exams
    /\ resp' = [op |-> "answer", status_code |-> 200, detail |-> "ok",
                is_correct |-> is_correct,
                current_score |-> exams'[e].score]
    /\ UNCHANGED <<users, refresh_tokens, category, questions, category_id, answer_options, sequences, now>>

AnswerQuestion(u, e, q, o) ==
    /\ LET r == AnswerChecks(u, e, q, o)
       IN IF r # Ok
          THEN /\ resp' = r
               /\ UNCHANGED <<store, now>>
          ELSE AnswerCommit(e, q, o, IsCorrect(q, o), exams[e].score)
    /\ UNCHANGED req

\* ----------------------------------------------- finish_exam (POST /exams/{id}/finish)
\* faulty variant: no check that the exam is still in_progress
FinishChecks_NoStatusCheck(u, e) ==
    IF ~ExamExists(e)
    THEN Error("finish", 404, "exam_not_found")
    ELSE IF exams[e].user_id # u
    THEN Error("finish", 403, "not_your_exam")
    ELSE IF AnswerCount(e) < EXAM_QUESTIONS_COUNT
    THEN Error("finish", 400, "not_all_answered")
    ELSE Ok

\* the checks of finish_exam, in the order of the code
FinishChecks(u, e) ==
    IF ~ExamExists(e)
    THEN Error("finish", 404, "exam_not_found")
    ELSE IF exams[e].user_id # u
    THEN Error("finish", 403, "not_your_exam")
    ELSE IF exams[e].status # in_progress
    THEN Error("finish", 400, "exam_already_finished")
    ELSE IF AnswerCount(e) < EXAM_QUESTIONS_COUNT
    THEN Error("finish", 400, "not_all_answered")
    ELSE Ok

\* faulty variant: the passing score itself does not pass
Passed_Strict(score) == score > PASSING_SCORE

\* passed = exam.score >= PASSING_SCORE
Passed(score) == score >= PASSING_SCORE

\* exam.status = ...; exam.finished_at = utcnow(); db.commit(); db.refresh(exam)
FinishCommit(e, total_questions, passed) ==
    /\ exams' = [exams EXCEPT ![e].status = IF passed THEN completed ELSE failed,
                              ![e].finished_at = <<now>>]
    /\ now' = now + 1
    /\ resp' = [op |-> "finish", status_code |-> 200, detail |-> "ok",
                exam_id |-> e,
                score |-> exams'[e].score,
                total_questions |-> total_questions,
                passed |-> passed,
                finished_at |-> exams'[e].finished_at]
    /\ UNCHANGED <<users, refresh_tokens, category, questions, category_id, answer_options, sequences, exam_answers>>

FinishExam(u, e) ==
    /\ LET r == FinishChecks(u, e)
       IN IF r # Ok
          THEN /\ resp' = r
               /\ UNCHANGED <<store, now>>
          ELSE FinishCommit(e, AnswerCount(e), Passed(exams[e].score))
    /\ UNCHANGED req

\* ------------------------------------------------- get_exam_detail (GET /exams/{id})
GetChecks(u, e) ==
    IF ~ExamExists(e)
    THEN Error("get", 404, "exam_not_found")
    ELSE IF exams[e].user_id # u
    THEN Error("get", 403, "not_your_exam")
    ELSE Ok

GetExamDetail(u, e) ==
    /\ resp' = IF GetChecks(u, e) # Ok
               THEN GetChecks(u, e)
               ELSE [op |-> "get", status_code |-> 200, detail |-> "ok",
                     id |-> e,
                     user_id |-> exams[e].user_id,
                     score |-> exams[e].score,
                     status |-> exams[e].status,
                     finished_at |-> exams[e].finished_at]
    /\ UNCHANGED <<store, now, req>>

\* ------------------------------------------ delete_question (DELETE /questions/{id})
\* check_admin_role, then the existence check
DeleteChecks(u, q) ==
    IF users[u].role # admin
    THEN Error("delete_question", 403, "admin_required")
    ELSE IF q \notin questions
    THEN Error("delete_question", 404, "question_not_found")
    ELSE Ok

DeleteQuestion(u, q) ==
    /\ IF DeleteChecks(u, q) # Ok
       THEN /\ resp' = DeleteChecks(u, q)
            /\ UNCHANGED store
       ELSE /\ questions' = questions \ {q}
            /\ category_id' = [x \in questions \ {q} |-> category_id[x]]
            /\ answer_options' = { opt \in answer_options : OptionQuestion(opt) # q }
            /\ exam_answers' = WithoutQuestion(exam_answers, q)
            /\ resp' = [op |-> "delete_question", status_code |-> 200, detail |-> "ok",
                        question_id |-> q]
            /\ UNCHANGED <<users, refresh_tokens, category, sequences, exams>>
    /\ UNCHANGED <<now, req>>

\* ------------------------------------------------------- sequential specification
Next ==
    \/ \E u \in DOMAIN users : StartExam(u)
    \/ \E u \in DOMAIN users, e \in ExamIdInputs, q \in QuestionIdInputs, o \in OptionIdInputs :
          AnswerQuestion(u, e, q, o)
    \/ \E u \in DOMAIN users, e \in ExamIdInputs : FinishExam(u, e)
    \/ \E u \in DOMAIN users, e \in ExamIdInputs : GetExamDetail(u, e)
    \/ \E u \in DOMAIN users, q \in EditIdInputs : DeleteQuestion(u, q)

Spec == Init /\ [][Next]_vars

\* ----------------------------------------------------- interleaved specification
\* A request slot runs one handler at a time.  The handler's queries see the
\* committed store of the moment they run; its commit writes what the handler
\* computed from what it read.  The catalog is not edited while SpecConc runs.
Idle(p) == req[p].pc = "idle"

Pending(pc) == { p \in Procs : req[p].pc = pc }

\* start_exam up to the sample: lines 47-68
StartExamRead(p, u) ==
    /\ Idle(p)
    /\ IF StartChecks(u) # Ok
       THEN /\ resp' = StartChecks(u)
            /\ UNCHANGED req
       ELSE /\ Len(exams) + Cardinality(Pending("start_commit")) < MaxExams
            /\ req' = [req EXCEPT ![p] = [pc |-> "start_commit", user_id |-> u]]
            /\ UNCHANGED resp
    /\ UNCHANGED <<store, now>>

\* start_exam from db.add(new_exam) on: lines 71-100
StartExamWrite(p) ==
    /\ req[p].pc = "start_commit"
    /\ \E sel \in Samples(questions, EXAM_QUESTIONS_COUNT) : StartCommit(req[p].user_id, sel)
    /\ req' = [req EXCEPT ![p] = [pc |-> "idle"]]

\* answer_question up to the duplicate check: lines 118-171
AnswerQuestionRead(p, u, e, q, o) ==
    /\ Idle(p)
    /\ IF AnswerChecks(u, e, q, o) # Ok
       THEN /\ resp' = AnswerChecks(u, e, q, o)
            /\ UNCHANGED req
       ELSE /\ req' = [req EXCEPT ![p] = [pc |-> "answer_commit",
                                          exam_id |-> e,
                                          question_id |-> q,
                                          option_id |-> o,
                                          is_correct |-> IsCorrect(q, o),
                                          score |-> exams[e].score]]
            /\ UNCHANGED resp
    /\ UNCHANGED <<store, now>>

\* answer_question from the insert on: lines 174-194
AnswerQuestionWrite(p) ==
    /\ req[p].pc = "answer_commit"
    /\ AnswerCommit(req[p].exam_id, req[p].question_id, req[p].option_id,
                    req[p].is_correct, req[p].score)
    /\ req' = [req EXCEPT ![p] = [pc |-> "idle"]]

\* finish_exam up to the pass/fail decision: lines 210-242
FinishExamRead(p, u, e) ==
    /\ Idle(p)
    /\ IF FinishChecks(u, e) # Ok
       THEN /\ resp' = FinishChecks(u, e)
            /\ UNCHANGED req
       ELSE /\ req' = [req EXCEPT ![p] = [pc |-> "finish_commit",
                                          exam_id |-> e,
                                          total_questions |-> AnswerCount(e),
                                          passed |-> Passed(exams[e].score)]]
            /\ UNCHANGED resp
    /\ UNCHANGED <<store, now>>

\* finish_exam from the status assignment on: lines 245-258
FinishExamWrite(p) ==
    /\ req[p].pc = "finish_commit"
    /\ FinishCommit(req[p].exam_id, req[p].total_questions, req[p].passed)
    /\ req' = [req EXCEPT ![p] = [pc |-> "idle"]]

NextConc ==
    \/ \E p \in Procs, u \in DOMAIN users : StartExamRead(p, u)
    \/ \E p \in Procs : StartExamWrite(p)
    \/ \E p \in Procs, u \in DOMAIN users, e \in ExamIdInputs,
          q \in QuestionIdInputs, o \in OptionIdInputs : AnswerQuestionRead(p, u, e, q, o)
    \/ \E p \in Procs : AnswerQuestionWrite(p)
    \/ \E p \in Procs, u \in DOMAIN users, e \in ExamIdInputs : FinishExamRead(p, u, e)
    \/ \E p \in Procs : FinishExamWrite(p)

SpecConc == Init /\ [][NextConc]_vars

\* Interleaved answers to several questions of an exam: start_exam as one
\* step, answer_question in its two steps, naming also a question that an exam
\* started from the empty store has not answered.
NextAnswers ==
    \/ \E u \in DOMAIN users : StartExam(u)
    \/ \E p \in Procs, u \in DOMAIN users, e \in ExamIdInputs,
          q \in EditIdInputs, o \in OptionIdInputs : AnswerQuestionRead(p, u, e, q, o)
    \/ \E p \in Procs : AnswerQuestionWrite(p)

SpecAnswers == Init /\ [][NextAnswers]_vars

\* =================================================== credential lifecycle
\* auth.py, user.py, admin.py.  The clock `now` counts the units in which the
\* token lifetimes are expressed.

\* configuration values imported by auth.py (lifetimes in clock units)
SECRET_KEY == "SECRET_KEY"
ACCESS_TOKEN_EXPIRE_MINUTES == 2
REFRESH_TOKEN_EXPIRE_DAYS == 2

\* last instant the clock reaches
MaxTime == 3
\* cap on the rows of the refresh_token table
MaxTokens == 2

None == "None"
Emails == {"a@pdd", "b@pdd"}
Usernames == {"ann", "bob"}
Passwords == {"secret1", "secret2"}
Roles == {admin, user}

\* str(user.id) and int(payload["sub"])
Str(n) == ToString(n)
ToInt(s) == CHOOSE n \in 0..(Cardinality(Emails) + 1) : ToString(n) = s

\* jwt.encode: the token string is a function of the payload and the key
jwt_encode(payload, key) == [payload |-> payload, signature |-> key]

\* create_access_token at instant t
AccessTokenAt(data, t) ==
    jwt_encode([sub |-> data.sub, email |-> data.email,
                exp |-> t + ACCESS_TOKEN_EXPIRE_MINUTES, type |-> "access"], SECRET_KEY)

create_access_token(data) == AccessTokenAt(data, now)

\* create_refresh_token at instant t
RefreshTokenAt(data, t) ==
    jwt_encode([sub |-> data.sub, exp |-> t + REFRESH_TOKEN_EXPIRE_DAYS,
                type |-> "refresh"], SECRET_KEY)

create_refresh_token(data) == RefreshTokenAt(data, now)

\* faulty variant: the expiry is compared with a leeway of the wrong sign, so
\* a token is rejected one instant early
decode_token_EarlyExpiry(op, token) ==
    IF token.signature # SECRET_KEY THEN Error(op, 401, "invalid_token")
    ELSE IF token.payload.exp <= now + 1 THEN Error(op, 401, "token_expired")
    ELSE Ok

\* decode_token: the signature is verified first, then the expiry
decode_token(op, token) ==
    IF token.signature # SECRET_KEY THEN Error(op, 401, "invalid_token")
    ELSE IF token.payload.exp <= now THEN Error(op, 401, "token_expired")
    ELSE Ok

UserExists(id) == id \in DOMAIN users

UsersWithEmail(email) == { id \in DOMAIN users : users[id].email = email }

UsersWithUsername(username) == { id \in DOMAIN users : users[id].username = username }

\* the unique constraints of the columns user.email and user.username
UniqueUsers(table) ==
    \A i \in DOMAIN table, j \in DOMAIN table :
        i # j => table[i].email # table[j].email /\ table[i].username # table[j].username

\* refresh_token rows with this token string (and this owner)
TokenRows(token) == { r \in BagToSet(refresh_tokens) : r.token = token }

TokenRowsOf(token, user_id) == { r \in TokenRows(token) : r.user_id = user_id }

\* tokens a client can present: the access and refresh tokens issued to an
\* existing user at some instant up to now, and a token signed with another key
TokenInputs ==
    LET issued == UNION { { AccessTokenAt([sub |-> Str(id), email |-> users[id].email], t),
                            RefreshTokenAt([sub |-> Str(id)], t) } :
                          id \in DOMAIN users, t \in 1..now }
    IN issued \cup { jwt_encode(RefreshTokenAt([sub |-> "1"], 1).payload, "another key") }

\* ------------------------------------------------------------- register
RegisterChecks(email, username) ==
    IF UsersWithEmail(email) # {} THEN Error("register", 409, "email_exists")
    ELSE IF UsersWithUsername(username) # {} THEN Error("register", 409, "username_exists")
    ELSE Ok

\* faulty variant: the columns e-mail and username carry no unique constraint
RegisterCommit_NoConstraint(email, username, password) ==
    /\ users' = Append(users, [email |-> email, username |-> username,
                               password |-> hash_password(password), role |-> user])
    /\ resp' = [op |-> "register", status_code |-> 201, detail |-> "ok",
                id |-> Len(users) + 1, email |-> email, username |-> username]
    /\ UNCHANGED <<refresh_tokens, category, questions, category_id, answer_options, sequences, exams, exam_answers, now>>

\* db.add(user); db.commit(): the insert fails on a unique constraint
RegisterCommit(email, username, password) ==
    LET row == [email |-> email, username |-> username,
                password |-> hash_password(password), role |-> user]
    IN IF ~UniqueUsers(Append(users, row))
       THEN /\ resp' = Error("register", 500, "integrity_error")
            /\ UNCHANGED <<store, now>>
       ELSE /\ users' = Append(users, row)
            /\ resp' = [op |-> "register", status_code |-> 201, detail |-> "ok",
                        id |-> Len(users) + 1, email |-> email, username |-> username]
            /\ UNCHANGED <<refresh_tokens, category, questions, category_id, answer_options, sequences, exams, exam_answers, now>>

Register(email, username, password) ==
    /\ LET r == RegisterChecks(email, username)
       IN IF r # Ok
          THEN /\ resp' = r
               /\ UNCHANGED <<store, now>>
          ELSE RegisterCommit(email, username, password)
    /\ UNCHANGED req

\* ---------------------------------------------------------------- login
\* faulty variant: the password is not verified
LoginChecks_NoVerify(email, password) ==
    IF UsersWithEmail(email) = {} THEN Error("login", 401, "bad_credentials") ELSE Ok

LoginChecks(email, password) ==
    IF UsersWithEmail(email) = {} THEN Error("login", 401, "bad_credentials")
    ELSE LET id == CHOOSE i \in UsersWithEmail(email) : TRUE
             verified == verify_password(password, users[id].password)
         IN IF verified = "UnknownHashError" THEN Error("login", 500, "internal_error")
            ELSE IF verified = "False" THEN Error("login", 401, "bad_credentials")
            ELSE Ok

Login(email, password) ==
    /\ LET r == LoginChecks(email, password)
       IN IF r # Ok
          THEN /\ resp' = r
               /\ UNCHANGED <<store, now>>
          ELSE LET id == CHOOSE i \in UsersWithEmail(email) : TRUE
                   access_token == create_access_token([sub |-> Str(id), email |-> users[id].email])
                   refresh_token == create_refresh_token([sub |-> Str(id)])
               IN /\ BagCardinality(refresh_tokens) < MaxTokens
                  /\ refresh_tokens' = refresh_tokens (+)
                         SetToBag({[user_id |-> id, token |-> refresh_token]})
                  /\ resp' = [op |-> "login", status_code |-> 200, detail |-> "ok",
                              access_token |-> access_token,
                              refresh_token |-> refresh_token,
                              token_type |-> "Bearer"]
                  /\ UNCHANGED <<users, category, questions, category_id, answer_options, sequences, exams, exam_answers, now>>
    /\ UNCHANGED req

\* -------------------------------------------------------------- refresh
RefreshChecks(token) ==
    IF decode_token("refresh", token) # Ok THEN decode_token("refresh", token)
    ELSE IF token.payload.type # "refresh" THEN Error("refresh", 401, "wrong_token_type")
    ELSE IF TokenRowsOf(token, ToInt(token.payload.sub)) = {}
         THEN Error("refresh", 401, "token_revoked")
    ELSE IF ~UserExists(ToInt(token.payload.sub)) THEN Error("refresh", 404, "user_not_found")
    ELSE Ok

\* faulty variant: the refresh token is consumed by a successful refresh
Refresh_Rotating(token) ==
    /\ LET r == RefreshChecks(token)
       IN IF r # Ok
          THEN /\ resp' = r
               /\ UNCHANGED refresh_tokens
          ELSE LET id == ToInt(token.payload.sub)
               IN /\ resp' = [op |-> "refresh", status_code |-> 200, detail |-> "ok",
                              access_token |-> create_access_token(
                                  [sub |-> Str(id), email |-> users[id].email])]
                  /\ \E row \in TokenRowsOf(token, id) :
                         refresh_tokens' = refresh_tokens (-) SetToBag({row})
    /\ UNCHANGED <<users, category, questions, category_id, answer_options, sequences, exams, exam_answers, now, req>>

Refresh(token) ==
    /\ LET r == RefreshChecks(token)
       IN IF r # Ok
          THEN resp' = r
          ELSE LET id == ToInt(token.payload.sub)
               IN resp' = [op |-> "refresh", status_code |-> 200, detail |-> "ok",
                           access_token |-> create_access_token(
                               [sub |-> Str(id), email |-> users[id].email])]
    /\ UNCHANGED <<store, now, req>>

\* --------------------------------------------------------------- logout
\* faulty variant: every refresh token of the owner of the string is deleted
Logout_AllOfUser(token) ==
    /\ IF TokenRows(token) = {}
       THEN UNCHANGED refresh_tokens
       ELSE \E row \in TokenRows(token) :
                refresh_tokens' =
                    LET keep == { r \in BagToSet(refresh_tokens) : r.user_id # row.user_id }
                    IN [r \in keep |-> refresh_tokens[r]]
    /\ resp' = [op |-> "logout", status_code |-> 200, detail |-> "Logout success"]
    /\ UNCHANGED <<users, category, questions, category_id, answer_options, sequences, exams, exam_answers, now, req>>

\* .first() of the rows with this token string is deleted: one row
Logout(token) ==
    /\ IF TokenRows(token) = {}
       THEN UNCHANGED refresh_tokens
       ELSE \E row \in TokenRows(token) :
                refresh_tokens' = refresh_tokens (-) SetToBag({row})
    /\ resp' = [op |-> "logout", status_code |-> 200, detail |-> "Logout success"]
    /\ UNCHANGED <<users, category, questions, category_id, answer_options, sequences, exams, exam_answers, now, req>>

\* ----------------------------------------------------- get_current_user
\* faulty variant: the type claim is not looked at
CurrentUserChecks_NoTypeCheck(token) ==
    IF decode_token("get_current_user", token) # Ok
    THEN decode_token("get_current_user", token)
    ELSE IF ~UserExists(ToInt(token.payload.sub))
         THEN Error("get_current_user", 404, "user_not_found")
    ELSE Ok

CurrentUserChecks(token) ==
    IF decode_token("get_current_user", token) # Ok
    THEN decode_token("get_current_user", token)
    ELSE IF token.payload.type # "access"
         THEN Error("get_current_user", 401, "wrong_token_type")
    ELSE IF ~UserExists(ToInt(token.payload.sub))
         THEN Error("get_current_user", 404, "user_not_found")
    ELSE Ok

GetCurrentUser(token) ==
    /\ LET r == CurrentUserChecks(token)
       IN IF r # Ok
          THEN resp' = r
          ELSE resp' = [op |-> "get_current_user", status_code |-> 200, detail |-> "ok",
                        id |-> ToInt(token.payload.sub)]
    /\ UNCHANGED <<store, now, req>>

\* ------------------------------------------------------ profile updates
\* an update sets the fields that are given (truthy)
ApplyUpdate(row, data) ==
    [row EXCEPT !.email = IF data.email # None THEN data.email ELSE @,
                !.username = IF data.username # None THEN data.username ELSE @,
                !.password = IF data.password # None THEN pwd_context_hash(data.password) ELSE @,
                !.role = IF data.role # None THEN data.role ELSE @]

\* number of completed exams of a user (stats.passed_exams)
PassedExams(id) ==
    Cardinality({ e \in DOMAIN exams : exams[e].user_id = id /\ exams[e].status = completed })

UserProfile(op, table, id) ==
    [op |-> op, status_code |-> 200, detail |-> "ok", id |-> id,
     email |-> table[id].email, username |-> table[id].username,
     passed_exams |-> PassedExams(id)]

\* db.commit() of an updated user row: the update fails on a unique constraint
UpdateCommit(op, id, data) ==
    LET table == [users EXCEPT ![id] = ApplyUpdate(users[id], data)]
    IN IF ~UniqueUsers(table)
       THEN /\ resp' = Error(op, 500, "integrity_error")
            /\ UNCHANGED users
       ELSE /\ users' = table
            /\ resp' = UserProfile(op, table, id)

\* request bodies of the two update endpoints: nothing given, one field
\* given, or e-mail, username and password given together
UpdateInputs ==
    LET all == [email : Emails \cup {None}, username : Usernames \cup {None},
                password : Passwords \cup {None}, role : Roles \cup {None}]
        given(d) == { f \in DOMAIN d : d[f] # None }
    IN { d \in all : Cardinality(given(d)) <= 1 }
       \cup { [email |-> "a@pdd", username |-> "ann", password |-> "secret2", role |-> None] }

\* UserUpdateSchema has no role
ProfileUpdateInputs == { d \in UpdateInputs : d.role = None }

\* PUT /users/me.  current_user was loaded by get_current_user in the session
\* of auth.get_db, the handler commits and refreshes with the session of
\* user.get_db.  SessionLocal is imported from pdd_app.db.database: when it
\* hands out a session per call, the commit writes nothing and db.refresh
\* raises (the instance is not persistent in that session); when it hands
\* out a shared session, the commit writes the row.
UpdateCurrentUserProfile(u, data) ==
    /\ IF data.email = None /\ data.username = None /\ data.password = None
       THEN /\ resp' = Error("update_profile", 400, "nothing_to_update")
            /\ UNCHANGED users
       ELSE \/ /\ resp' = Error("update_profile", 500, "not_persistent")
               /\ UNCHANGED users
            \/ UpdateCommit("update_profile", u, data)
    /\ UNCHANGED <<refresh_tokens, category, questions, category_id, answer_options, sequences, exams, exam_answers, now, req>>

\* faulty variant: the role of the caller is not checked
AdminUpdateChecks_NoRoleCheck(u, user_id) ==
    IF ~UserExists(user_id) THEN Error("admin_update_user", 404, "user_not_found")
    ELSE Ok

AdminUpdateChecks(u, user_id) ==
    IF users[u].role # admin THEN Error("admin_update_user", 403, "admin_required")
    ELSE IF ~UserExists(user_id) THEN Error("admin_update_user", 404, "user_not_found")
    ELSE Ok

\* PUT /admin/users/{user_id}
AdminUpdateUser(u, user_id, data) ==
    /\ LET r == AdminUpdateChecks(u, user_id)
       IN IF r # Ok
          THEN /\ resp' = r
               /\ UNCHANGED users
          ELSE UpdateCommit("admin_update_user", user_id, data)
    /\ UNCHANGED <<refresh_tokens, category, questions, category_id, answer_options, sequences, exams, exam_answers, now, req>>

\* time passes
Tick ==
    /\ now < MaxTime
    /\ now' = now + 1
    /\ UNCHANGED <<store, resp, req>>

UserIdInputs == 1..(Cardinality(Emails) + 1)

\* token lifecycle: register, login, refresh, logout, identity resolution
NextAuth ==
    \/ \E email \in Emails, username \in Usernames, password \in Passwords :
          Register(email, username, password)
    \/ \E email \in Emails, password \in Passwords : Login(email, password)
    \/ \E token \in TokenInputs : Refresh(token)
    \/ \E token \in TokenInputs : Logout(token)
    \/ \E token \in TokenInputs : GetCurrentUser(token)
    \/ Tick


\* credential writes: register, login and the two update endpoints, each
\* handler one atomic step
NextAccounts ==
    \/ \E email \in Emails, username \in Usernames, password \in Passwords :
          Register(email, username, password)
    \/ \E email \in Emails, password \in Passwords : Login(email, password)
    \/ \E u \in DOMAIN users, user_id \in UserIdInputs, data \in UpdateInputs :
          AdminUpdateUser(u, user_id, data)
    \/ \E u \in DOMAIN users, data \in ProfileUpdateInputs : UpdateCurrentUserProfile(u, data)

\* the account specifications start from the seeded administrator alone
SeededUsers == <<InitUsers[2]>>

InitAccounts ==
    /\ users = SeededUsers
    /\ refresh_tokens = EmptyBag
    /\ category = InitCategory
    /\ questions = InitQuestions
    /\ category_id = InitCategoryId
    /\ answer_options = InitOptions
    /\ sequences = InitSequences
    /\ exams = <<>>
    /\ exam_answers = EmptyBag
    /\ now = 1
    /\ resp = NoResponse
    /\ req = [p \in Procs |-> [pc |-> "idle"]]

SpecAccounts == InitAccounts /\ [][NextAccounts]_vars

SpecAuth == InitAccounts /\ [][NextAuth]_vars

\* register up to the second existence query: lines 92-96
RegisterRead(p, email, username, password) ==
    /\ Idle(p)
    /\ LET r == RegisterChecks(email, username)
       IN IF r # Ok
          THEN /\ resp' = r
               /\ UNCHANGED req
          ELSE /\ req' = [req EXCEPT ![p] = [pc |-> "register_commit", email |-> email,
                                             username |-> username, password |-> password]]
               /\ UNCHANGED resp
    /\ UNCHANGED <<store, now>>

\* register from the insert on: lines 98-110
RegisterWrite(p) ==
    /\ req[p].pc = "register_commit"
    /\ RegisterCommit(req[p].email, req[p].username, req[p].password)
    /\ req' = [req EXCEPT ![p] = [pc |-> "idle"]]

\* the updates that touch the unique columns
IdentityUpdateInputs == { d \in UpdateInputs : d.password = None /\ d.role = None }

\* register requests interleave with each other and with updates of e-mail
\* and username
NextAccountsConc ==
    \/ \E p \in Procs, email \in Emails, username \in Usernames :
          RegisterRead(p, email, username, "secret1")
    \/ \E p \in Procs : RegisterWrite(p)
    \/ \E u \in DOMAIN users, data \in IdentityUpdateInputs :
          UpdateCurrentUserProfile(u, data)
    \/ \E u \in DOMAIN users, user_id \in UserIdInputs, data \in IdentityUpdateInputs :
          AdminUpdateUser(u, user_id, data)

SpecAccountsConc == InitAccounts /\ [][NextAccountsConc]_vars

\* ======================================================== catalog administration
\* question.py, category.py: the handlers that write the catalog

\* cap on the rows created in the catalog tables (categories and questions
\* together)
MaxCreated == 1

\* the catalog specification starts from a small store: one category with one
\* question, and an exam of user 1 that answered it
CatalogSequences == [category |-> 1, question |-> 1]

InitCatalog ==
    /\ users = InitUsers
    /\ refresh_tokens = EmptyBag
    /\ category = (1 :> [category_name |-> "signs"])
    /\ questions = {1}
    /\ category_id = (1 :> 1)
    /\ answer_options = OptionsOf(1)
    /\ sequences = CatalogSequences
    /\ exams = <<[NewExam(1) EXCEPT !.score = 1]>>
    /\ exam_answers = SetToBag({ExamAnswer(1, 1, CorrectOption(1), TRUE)})
    /\ now = 1
    /\ resp = NoResponse
    /\ req = [p \in Procs |-> [pc |-> "idle"]]

\* rows created since the initial state
Created ==
    (sequences.category - CatalogSequences.category)
        + (sequences.question - CatalogSequences.question)

\* category and question ids a request may name: every row that can exist
CategoryIdInputs == 1..(CatalogSequences.category + MaxCreated)
CatalogQuestionInputs == 1..(CatalogSequences.question + MaxCreated)

\* check_admin_role(current_user)
check_admin_role(op, u) ==
    IF users[u].role # admin THEN Error(op, 403, "admin_required") ELSE Ok

\* rows removed with a set of questions: the cascades of Question
\* (question_options, exam_answers)
WithoutQuestions(bag, qs) ==
    LET rows == { a \in BagToSet(bag) : a.question_id \notin qs }
    IN [a \in rows |-> bag[a]]

\* ------------------------------------------------------- create_question
\* request bodies: the options passed the validator of QuestionCreateSchema
\* (two options, the first one correct); text, explanation, difficulty and
\* image are columns no handler in scope reads
QuestionCreateInputs == [category_id : CategoryIdInputs]

CreateQuestionChecks(u, data) ==
    IF check_admin_role("create_question", u) # Ok
    THEN check_admin_role("create_question", u)
    ELSE IF data.category_id \notin DOMAIN category
    THEN Error("create_question", 404, "category_not_found")
    ELSE Ok

CreateQuestion(u, data) ==
    /\ IF CreateQuestionChecks(u, data) # Ok
       THEN /\ resp' = CreateQuestionChecks(u, data)
            /\ UNCHANGED store
       ELSE LET q == sequences.question + 1
            IN /\ Created < MaxCreated
               /\ questions' = questions \cup {q}
               /\ category_id' = (q :> data.category_id) @@ category_id
               /\ answer_options' = answer_options \cup OptionsOf(q)
               /\ sequences' = [sequences EXCEPT !.question = q]
               /\ resp' = [op |-> "create_question", status_code |-> 201, detail |-> "ok",
                           question_id |-> q]
               /\ UNCHANGED <<users, refresh_tokens, category, exams, exam_answers>>
    /\ UNCHANGED <<now, req>>

\* ------------------------------------------------------- update_question
\* request bodies: `fields` are the fields the body sets
\* (model_dump(exclude_unset=True)): category_id or none of the modelled
\* columns (QuestionUpdateSchema; the other fields are columns no handler in
\* scope reads)
QuestionUpdateInputs ==
    [fields : {{"category_id"}}, category_id : CategoryIdInputs]
        \cup {[fields |-> {}, category_id |-> 1]}

UpdateQuestionChecks(u, q, data) ==
    IF check_admin_role("update_question", u) # Ok
    THEN check_admin_role("update_question", u)
    ELSE IF q \notin questions
    THEN Error("update_question", 404, "question_not_found")
    ELSE IF "category_id" \in data.fields /\ data.category_id \notin DOMAIN category
    THEN Error("update_question", 404, "category_not_found")
    ELSE Ok

UpdateQuestion(u, q, data) ==
    /\ IF UpdateQuestionChecks(u, q, data) # Ok
       THEN /\ resp' = UpdateQuestionChecks(u, q, data)
            /\ UNCHANGED category_id
       ELSE /\ category_id' = IF "category_id" \in data.fields
                               THEN [category_id EXCEPT ![q] = data.category_id]
                               ELSE category_id
            /\ resp' = [op |-> "update_question", status_code |-> 200, detail |-> "ok",
                        question_id |-> q]
    /\ UNCHANGED <<users, refresh_tokens, category, questions, answer_options, sequences,
                   exams, exam_answers, now, req>>

\* ------------------------------------------------------- create_category
CategoryWithName(name) == { c \in DOMAIN category : category[c].category_name = name }

CreateCategoryChecks(u, name) ==
    IF check_admin_role("create_category", u) # Ok
    THEN check_admin_role("create_category", u)
    ELSE IF CategoryWithName(name) # {}
    THEN Error("create_category", 409, "category_exists")
    ELSE Ok

CreateCategory(u, name) ==
    /\ IF CreateCategoryChecks(u, name) # Ok
       THEN /\ resp' = CreateCategoryChecks(u, name)
            /\ UNCHANGED <<category, sequences>>
       ELSE LET c == sequences.category + 1
            IN /\ Created < MaxCreated
               /\ category' = (c :> [category_name |-> name]) @@ category
               /\ sequences' = [sequences EXCEPT !.category = c]
               /\ resp' = [op |-> "create_category", status_code |-> 201, detail |-> "ok",
                           id |-> c, category_name |-> name]
    /\ UNCHANGED <<users, refresh_tokens, questions, category_id, answer_options,
                   exams, exam_answers, now, req>>

\* ------------------------------------------------------- update_category
UpdateCategoryChecks(u, c, name) ==
    IF check_admin_role("update_category", u) # Ok
    THEN check_admin_role("update_category", u)
    ELSE IF c \notin DOMAIN category
    THEN Error("update_category", 404, "category_not_found")
    ELSE IF CategoryWithName(name) \ {c} # {}
    THEN Error("update_category", 409, "category_exists")
    ELSE Ok

UpdateCategory(u, c, name) ==
    /\ IF UpdateCategoryChecks(u, c, name) # Ok
       THEN /\ resp' = UpdateCategoryChecks(u, c, name)
            /\ UNCHANGED category
       ELSE /\ category' = [category EXCEPT ![c].category_name = name]
            /\ resp' = [op |-> "update_category", status_code |-> 200, detail |-> "ok",
                        id |-> c, category_name |-> name]
    /\ UNCHANGED <<users, refresh_tokens, questions, category_id, answer_options, sequences,
                   exams, exam_answers, now, req>>

\* ------------------------------------------------------- delete_category
\* faulty variant: the category is looked up before the role is checked
DeleteCategoryChecks_ExistenceFirst(u, c) ==
    IF c \notin DOMAIN category
    THEN Error("delete_category", 404, "category_not_found")
    ELSE check_admin_role("delete_category", u)

DeleteCategoryChecks(u, c) ==
    IF check_admin_role("delete_category", u) # Ok
    THEN check_admin_role("delete_category", u)
    ELSE IF c \notin DOMAIN category
    THEN Error("delete_category", 404, "category_not_found")
    ELSE Ok

\* db.delete(category) deletes the questions of the category
\* (category_questions: cascade all, delete-orphan) and with each of them its
\* options and the answers given to it
DeleteCategory(u, c) ==
    /\ IF DeleteCategoryChecks(u, c) # Ok
       THEN /\ resp' = DeleteCategoryChecks(u, c)
            /\ UNCHANGED store
       ELSE LET qs == { q \in questions : category_id[q] = c }
            IN /\ category' = [x \in DOMAIN category \ {c} |-> category[x]]
               /\ questions' = questions \ qs
               /\ category_id' = [q \in questions \ qs |-> category_id[q]]
               /\ answer_options' = { opt \in answer_options : OptionQuestion(opt) \notin qs }
               /\ exam_answers' = WithoutQuestions(exam_answers, qs)
               /\ resp' = [op |-> "delete_category", status_code |-> 200, detail |-> "ok",
                           category_id |-> c]
               /\ UNCHANGED <<users, refresh_tokens, sequences, exams>>
    /\ UNCHANGED <<now, req>>

\* ------------------------------------------------------- catalog specification
\* request bodies of admin_update_user that give the role only
RoleUpdateInputs ==
    { d \in UpdateInputs : d.email = None /\ d.username = None /\ d.password = None }

NextCatalog ==
    \/ \E u \in DOMAIN users, data \in QuestionCreateInputs : CreateQuestion(u, data)
    \/ \E u \in DOMAIN users, q \in CatalogQuestionInputs, data \in QuestionUpdateInputs :
          UpdateQuestion(u, q, data)
    \/ \E u \in DOMAIN users, q \in CatalogQuestionInputs : DeleteQuestion(u, q)
    \/ \E u \in DOMAIN users, name \in CategoryNames : CreateCategory(u, name)
    \/ \E u \in DOMAIN users, c \in CategoryIdInputs, name \in CategoryNames :
          UpdateCategory(u, c, name)
    \/ \E u \in DOMAIN users, c \in CategoryIdInputs : DeleteCategory(u, c)
    \/ \E u \in DOMAIN users, user_id \in UserIdInputs, data \in RoleUpdateInputs :
          AdminUpdateUser(u, user_id, data)

SpecCatalog == InitCatalog /\ [][NextCatalog]_vars

\* ================================================================== claims
IsOwner(u, e) == ExamExists(e) /\ exams[e].user_id = u

Terminal(e) == ExamExists(e) /\ exams[e].status \in {completed, failed}

\* the exam_answer rows of exam e, with their multiplicity
AnswersOf(bag, e) ==
    LET rows == { a \in BagToSet(bag) : a.exam_id = e }
    IN [a \in rows |-> bag[a]]

InProgressOf(u) ==
    { e \in DOMAIN exams : exams[e].user_id = u /\ exams[e].status = in_progress }

\* C1: under any interleaving of concurrent start_exam requests (read the
\* in_progress exam of the user, then insert and commit), every user has at
\* most one exam with status in_progress.
C1_AtMostOneInProgress ==
    \A u \in DOMAIN users : Cardinality(InProgressOf(u)) <= 1

\* C2: under any interleaving of concurrent answer_question requests (read the
\* answer of (exam, question), then insert and commit), at most one
\* exam_answer row exists for every (exam, question) pair.
C2_AtMostOneAnswerPerQuestion ==
    \A e \in DOMAIN exams : \A q \in 1..MaxQuestionId : AnswerRows(e, q) <= 1

\* C3: sequentially, answer_question by the owner on an in_progress exam for a
\* question that already has a recorded answer, with any option of that
\* question, is rejected as a duplicate answer (Conflict) and leaves the exams
\* (so the score) and the recorded answers as they were.
C3_DuplicateAnswerRejected ==
    [][\A u \in DOMAIN users, e \in ExamIdInputs, q \in QuestionIdInputs, o \in OptionIdInputs :
          ( /\ resp'.op = "answer"
            /\ IsOwner(u, e)
            /\ exams[e].status = in_progress
            /\ q \in questions
            /\ OptionOf(q, o) # {}
            /\ AnswerRows(e, q) > 0
            /\ AnswerQuestion(u, e, q, o) )
          => ( /\ resp' = Error("answer", 400, "already_answered")
               /\ exams' = exams
               /\ exam_answers' = exam_answers )]_vars

\* C3 witness: a duplicate answer to an in_progress exam has just been rejected.
C3_Witness ==
    /\ resp = Error("answer", 400, "already_answered")
    /\ \E e \in DOMAIN exams : exams[e].status = in_progress /\ AnswerCount(e) > 0

\* C4: for an in_progress exam and its owner, finish_exam succeeds if and only
\* if exactly EXAM_QUESTIONS_COUNT answers are recorded; with fewer it is
\* rejected as incomplete (InvalidState).
C4_FinishIffExactlyAllAnswered ==
    [][\A u \in DOMAIN users, e \in ExamIdInputs :
          ( /\ resp'.op = "finish"
            /\ IsOwner(u, e)
            /\ exams[e].status = in_progress
            /\ FinishExam(u, e) )
          => ( /\ (resp'.status_code = 200) <=> (AnswerCount(e) = EXAM_QUESTIONS_COUNT)
               /\ AnswerCount(e) < EXAM_QUESTIONS_COUNT
                     => resp' = Error("finish", 400, "not_all_answered") )]_vars

C7_TerminalExamFrozen ==
    [][\A e \in DOMAIN exams :
          Terminal(e) =>
              /\ exams'[e].score = exams[e].score
              /\ exams'[e].finished_at = exams[e].finished_at
              /\ AnswersOf(exam_answers', e) = AnswersOf(exam_answers, e)]_vars

\* C8: finish_exam and answer_question called by the owner on a completed or
\* failed exam are rejected as "already finished" (InvalidState) and leave the
\* exams and the recorded answers unchanged.
C8_TerminalExamRejects ==
    [][\A u \in DOMAIN users, e \in ExamIdInputs :
          (IsOwner(u, e) /\ Terminal(e)) =>
              /\ (resp'.op = "finish" /\ FinishExam(u, e)) =>
                    /\ resp' = Error("finish", 400, "exam_already_finished")
                    /\ exams' = exams
                    /\ exam_answers' = exam_answers
              /\ \A q \in QuestionIdInputs, o \in OptionIdInputs :
                    (resp'.op = "answer" /\ AnswerQuestion(u, e, q, o)) =>
                        /\ resp' = Error("answer", 400, "exam_already_finished")
                        /\ exams' = exams
                        /\ exam_answers' = exam_answers]_vars

\* C8 witness: a second finish of a finished exam has just been rejected.
C8_Witness ==
    /\ resp = Error("finish", 400, "exam_already_finished")
    /\ \E e \in DOMAIN exams : Terminal(e) /\ exams[e].finished_at # <<>>

\* C9: answer_question, finish_exam and get_exam_detail called on an existing
\* exam by a user who is not its owner are rejected as Forbidden, whatever the
\* exam's status and the other arguments, and leave the exams and the recorded
\* answers unchanged.
C9_NonOwnerForbidden ==
    [][\A u \in DOMAIN users, e \in ExamIdInputs :
          (ExamExists(e) /\ exams[e].user_id # u) =>
              /\ \A q \in QuestionIdInputs, o \in OptionIdInputs :
                    (resp'.op = "answer" /\ AnswerQuestion(u, e, q, o)) =>
                        /\ resp' = Error("answer", 403, "not_your_exam")
                        /\ exams' = exams
                        /\ exam_answers' = exam_answers
              /\ (resp'.op = "finish" /\ FinishExam(u, e)) =>
                    /\ resp' = Error("finish", 403, "not_your_exam")
                    /\ exams' = exams
                    /\ exam_answers' = exam_answers
              /\ (resp'.op = "get" /\ GetExamDetail(u, e)) =>
                    /\ resp' = Error("get", 403, "not_your_exam")
                    /\ exams' = exams
                    /\ exam_answers' = exam_answers]_vars

\* C9 witness: an answer to an exam in progress has just been refused to a
\* user who does not own it.
C9_Witness ==
    /\ resp = Error("answer", 403, "not_your_exam")
    /\ \E e \in DOMAIN exams : exams[e].status = in_progress

\* C10: sequentially, start_exam by a user who has an exam in progress is
\* rejected as "already active" (Conflict) whatever the size of the catalog,
\* creates no exam and leaves the existing exams and answers unchanged.
C10_StartWhileActiveRejected ==
    [][\A u \in DOMAIN users :
          (resp'.op = "start" /\ HasActiveExam(u) /\ StartExam(u)) =>
              /\ resp' = Error("start", 400, "active_exam_exists")
              /\ exams' = exams
              /\ exam_answers' = exam_answers]_vars

\* C10 witness: the rejection has just happened with a catalog too small to
\* sample an exam from.
C10_Witness ==
    /\ resp = Error("start", 400, "active_exam_exists")
    /\ Cardinality(questions) < EXAM_QUESTIONS_COUNT

\* C11: sequentially, start_exam by a user without an exam in progress
\* succeeds if and only if the catalog holds at least EXAM_QUESTIONS_COUNT
\* questions; on success it appends one in_progress exam of that user with
\* score 0 and returns exactly EXAM_QUESTIONS_COUNT distinct questions of the
\* catalog; with a smaller catalog it is rejected (InsufficientData) and
\* creates no exam.
C11_StartSamplesCatalog ==
    [][\A u \in DOMAIN users :
          (resp'.op = "start" /\ ~HasActiveExam(u) /\ StartExam(u)) =>
              IF Cardinality(questions) >= EXAM_QUESTIONS_COUNT
              THEN /\ resp'.status_code = 201
                   /\ exams' = Append(exams, [user_id |-> u, score |-> 0,
                                              status |-> in_progress, finished_at |-> <<>>])
                   /\ resp'.exam_id = Len(exams')
                   /\ Cardinality(resp'.questions) = EXAM_QUESTIONS_COUNT
                   /\ resp'.questions \subseteq questions
              ELSE /\ resp' = Error("start", 400, "not_enough_questions")
                   /\ exams' = exams]_vars

\* C11 witness: start_exam has just succeeded from a catalog that holds more
\* questions than an exam samples.
C11_Witness ==
    /\ resp.op = "start"
    /\ resp.status_code = 201
    /\ Cardinality(questions) > EXAM_QUESTIONS_COUNT
    /\ exams[resp.exam_id].status = in_progress

\* C12: in every reachable state, also after delete_question has cascaded to
\* the recorded answers of a question, the score of every exam is the number
\* of its exam_answer rows with is_correct true.
C12_ScoreCountsCorrectAnswers ==
    \A e \in DOMAIN exams :
        exams[e].score =
            SumCopies({ a \in BagToSet(exam_answers) : a.exam_id = e /\ a.is_correct })

\* C13: once logout has returned for a token string, refresh with that string
\* is rejected as Unauthorized, also when several refresh_token rows carry the
\* string because the user logged in twice within the same instant.
C13_RefreshAfterLogoutFails ==
    [][\A token \in TokenInputs :
          (resp'.op = "logout" /\ Logout(token)) =>
              (RefreshChecks(token).status_code = 401)']_vars

\* C14: after every credential write that succeeds with password p (register,
\* the profile update of the user, the update of the user by an
\* administrator), login with the e-mail address of that user and p passes
\* its checks: the stored hash is one that verify_password accepts.
C14_WrittenPasswordLogsIn ==
    [][/\ \A email \in Emails, username \in Usernames, password \in Passwords :
              (resp'.op = "register" /\ Register(email, username, password)
                   /\ resp'.status_code = 201)
              => (LoginChecks(email, password) = Ok)'
       /\ \A u \in DOMAIN users, data \in ProfileUpdateInputs :
              (resp'.op = "update_profile" /\ data.password # None
                   /\ UpdateCurrentUserProfile(u, data) /\ resp'.status_code = 200)
              => (LoginChecks(users[u].email, data.password) = Ok)'
       /\ \A u \in DOMAIN users, user_id \in DOMAIN users, data \in UpdateInputs :
              (resp'.op = "admin_update_user" /\ data.password # None
                   /\ AdminUpdateUser(u, user_id, data) /\ resp'.status_code = 200)
              => (LoginChecks(users[user_id].email, data.password) = Ok)']_vars

\* C15: a registration that is accepted for (email, username, password) makes
\* login with that e-mail address and password pass and login with any other
\* password fail as Unauthorized; as long as the stored hash is the one
\* register wrote, a login with the registered password returns an access
\* token, a refresh token and the token type and stores the refresh token, and
\* a login with another password is rejected as Unauthorized and stores no
\* refresh token.
C15_RegisterThenLogin ==
    [][/\ \A email \in Emails, username \in Usernames, password \in Passwords :
              (resp'.op = "register" /\ Register(email, username, password)
                   /\ resp'.status_code = 201)
              => /\ (LoginChecks(email, password) = Ok)'
                 /\ \A other \in Passwords \ {password} :
                        (LoginChecks(email, other) = Error("login", 401, "bad_credentials"))'
       /\ \A email \in Emails, password \in Passwords, registered \in Passwords :
              ( /\ resp'.op = "login"
                /\ \E id \in UsersWithEmail(email) : users[id].password = hash_password(registered)
                /\ Login(email, password) )
              => LET id == CHOOSE i \in UsersWithEmail(email) : TRUE
                 IN IF password = registered
                    THEN /\ resp'.status_code = 200
                         /\ resp'.access_token.payload.type = "access"
                         /\ resp'.refresh_token.payload.type = "refresh"
                         /\ resp'.token_type = "Bearer"
                         /\ refresh_tokens' = refresh_tokens (+)
                                SetToBag({[user_id |-> id, token |-> resp'.refresh_token]})
                    ELSE /\ resp' = Error("login", 401, "bad_credentials")
                         /\ refresh_tokens' = refresh_tokens]_vars

\* C15 witness: a user who registered in this run has just logged in.
C15_Witness ==
    /\ resp.op = "login"
    /\ resp.status_code = 200
    /\ ToInt(resp.refresh_token.payload.sub) > Len(SeededUsers)

\* C16: the access token returned by a successful login is the one issued now
\* to the user with the given e-mail address, the access token returned by a
\* successful refresh is the one issued now to the owner of the refresh token,
\* and get_current_user called with an access token issued to a user, before
\* the token expires, resolves to the id of that user.
C16_AccessTokenRoundTrip ==
    [][/\ \A email \in Emails, password \in Passwords :
              (resp'.op = "login" /\ Login(email, password) /\ resp'.status_code = 200)
              => \E id \in UsersWithEmail(email) :
                    resp'.access_token =
                        AccessTokenAt([sub |-> Str(id), email |-> users[id].email], now)
       /\ \A token \in TokenInputs :
              (resp'.op = "refresh" /\ Refresh(token) /\ resp'.status_code = 200)
              => \E row \in TokenRows(token) :
                    resp'.access_token =
                        AccessTokenAt([sub |-> Str(row.user_id),
                                       email |-> users[row.user_id].email], now)
       /\ \A id \in DOMAIN users, t \in 1..now :
              LET token == AccessTokenAt([sub |-> Str(id), email |-> users[id].email], t)
              IN (resp'.op = "get_current_user" /\ token.payload.exp > now
                      /\ GetCurrentUser(token))
                 => /\ resp'.status_code = 200
                    /\ resp'.id = id]_vars

\* C16 witness: a user is logged in and, after time has passed, an access
\* token has just been resolved.
C16_Witness ==
    /\ resp.op = "get_current_user"
    /\ resp.status_code = 200
    /\ refresh_tokens # EmptyBag
    /\ now > 1

\* C17: under any interleaving of register requests (existence queries, then
\* insert and commit) with updates of e-mail address and username, no two
\* users share an e-mail address and no two users share a username; and a
\* register request that finds a user with its e-mail address or its username
\* is rejected as Conflict and creates no user.
C17_UniqueEmailAndUsername ==
    /\ [](\A i \in DOMAIN users, j \in DOMAIN users :
             i # j => users[i].email # users[j].email /\ users[i].username # users[j].username)
    /\ [][\A p \in Procs, email \in Emails, username \in Usernames, password \in Passwords :
             ( /\ resp'.op = "register"
               /\ (\E i \in DOMAIN users : users[i].email = email \/ users[i].username = username)
               /\ RegisterRead(p, email, username, password) )
             => /\ resp'.status_code = 409
                /\ users' = users
                /\ req' = req]_vars

\* C17 witness: two registrations raced for the same e-mail address or
\* username and the commit of the second was refused by the store.
C17_Witness ==
    /\ resp = Error("register", 500, "integrity_error")
    /\ Len(users) > Len(SeededUsers)

\* C18: a refresh that succeeds leaves the refresh_token table (and the
\* users) unchanged, returns an access token and no refresh token, and the
\* same refresh token passes the checks of refresh again right afterwards.
C18_RefreshDoesNotRotate ==
    [][\A token \in TokenInputs :
          (resp'.op = "refresh" /\ Refresh(token) /\ resp'.status_code = 200)
          => /\ refresh_tokens' = refresh_tokens
             /\ users' = users
             /\ DOMAIN resp' = {"op", "status_code", "detail", "access_token"}
             /\ resp'.access_token.payload.type = "access"
             /\ (RefreshChecks(token) = Ok)']_vars

\* C18 witness: a refresh has just succeeded at an instant after the login
\* that issued its token.
C18_Witness ==
    /\ resp.op = "refresh"
    /\ resp.status_code = 200
    /\ refresh_tokens # EmptyBag
    /\ \A row \in BagToSet(refresh_tokens) :
          row.token.payload.exp < now + REFRESH_TOKEN_EXPIRE_DAYS

\* C19: refresh called with an unexpired access token and get_current_user
\* called with an unexpired refresh token (stored or not, of an existing
\* user) are rejected as Unauthorized for the wrong token type, and change no
\* table.
C19_TokenTypeDiscrimination ==
    [][\A id \in DOMAIN users, t \in 1..now :
          LET access_token == AccessTokenAt([sub |-> Str(id), email |-> users[id].email], t)
              refresh_token == RefreshTokenAt([sub |-> Str(id)], t)
          IN /\ (resp'.op = "refresh" /\ access_token.payload.exp > now
                     /\ Refresh(access_token))
                => /\ resp' = Error("refresh", 401, "wrong_token_type")
                   /\ UNCHANGED store
             /\ (resp'.op = "get_current_user" /\ refresh_token.payload.exp > now
                     /\ GetCurrentUser(refresh_token))
                => /\ resp' = Error("get_current_user", 401, "wrong_token_type")
                   /\ UNCHANGED store]_vars

\* C19 witness: get_current_user has just refused a token while an unexpired
\* refresh token is stored.
C19_Witness ==
    /\ resp = Error("get_current_user", 401, "wrong_token_type")
    /\ \E row \in BagToSet(refresh_tokens) :
          row.token.payload.exp > now /\ UserExists(row.user_id)

\* C20: login answers an unknown e-mail address and a password that does not
\* match the stored hash with the same response (Unauthorized, same message),
\* and stores no refresh token in either case.
C20_LoginFailuresIndistinguishable ==
    /\ [](\A unknown \in Emails, known \in Emails, p1 \in Passwords, p2 \in Passwords :
             ( /\ UsersWithEmail(unknown) = {}
               /\ \E id \in UsersWithEmail(known) : users[id].password # hash_password(p2) )
             => LoginChecks(unknown, p1) = LoginChecks(known, p2))
    /\ [][\A email \in Emails, password \in Passwords :
             ( /\ resp'.op = "login"
               /\ \/ UsersWithEmail(email) = {}
                  \/ \E id \in UsersWithEmail(email) : users[id].password # hash_password(password)
               /\ Login(email, password) )
             => /\ resp' = Error("login", 401, "bad_credentials")
                /\ refresh_tokens' = refresh_tokens]_vars

\* C21: logout with a token string that no refresh_token row carries succeeds
\* and leaves the table unchanged, and after any logout no row carries the
\* token string, so that a second logout of the same string changes nothing.
C21_LogoutIdempotent ==
    [][\A token \in TokenInputs :
          (resp'.op = "logout" /\ Logout(token)) =>
              /\ resp'.status_code = 200
              /\ TokenRows(token) = {} => refresh_tokens' = refresh_tokens
              /\ (TokenRows(token) = {})']_vars

\* C23: of two consecutive error responses, two Conflict outcomes carry the
\* same status code, and a Conflict outcome carries another code than an
\* InvalidState or InsufficientData outcome.
C23_ErrorKindsHaveDistinctCodes ==
    [][LET Conflict == {"email_exists", "username_exists", "active_exam_exists",
                        "already_answered"}
           InvalidState == {"exam_already_finished", "not_all_answered"}
           InsufficientData == {"not_enough_questions"}
       IN /\ (resp.detail \in Conflict /\ resp'.detail \in Conflict)
                => resp'.status_code = resp.status_code
          /\ (resp.detail \in Conflict /\ resp'.detail \in InvalidState \cup InsufficientData)
                => resp'.status_code # resp.status_code]_vars

\* C25: answer_question reports the first check that fails, in the order:
\* exam missing (NotFound), caller not the owner (Forbidden), exam not
\* in_progress (InvalidState), question missing (NotFound), option missing or
\* of another question (NotFound), answer already recorded (Conflict); a
\* failing call records no answer and leaves the exams unchanged.
C25_AnswerCheckOrder ==
    [][resp'.op = "answer" =>
          LET got == <<resp'.status_code, resp'.detail>>
          IN /\ resp'.status_code # 200 => exams' = exams /\ exam_answers' = exam_answers
             /\ \A u \in DOMAIN users, e \in ExamIdInputs :
                   LET exam_level ==
                         IF e \notin DOMAIN exams THEN <<404, "exam_not_found">>
                         ELSE IF exams[e].user_id # u THEN <<403, "not_your_exam">>
                         ELSE IF exams[e].status # in_progress
                              THEN <<400, "exam_already_finished">>
                         ELSE <<200, "ok">>
                   IN \A q \in QuestionIdInputs, o \in OptionIdInputs :
                         LET expected ==
                               IF exam_level[1] # 200 THEN exam_level
                               ELSE IF q \notin questions THEN <<404, "question_not_found">>
                               ELSE IF o \notin answer_options \/ OptionQuestion(o) # q
                                    THEN <<404, "option_not_found">>
                               ELSE IF \E a \in DOMAIN exam_answers :
                                          a.exam_id = e /\ a.question_id = q
                                    THEN <<400, "already_answered">>
                               ELSE <<200, "ok">>
                         IN got = expected \/ ~AnswerQuestion(u, e, q, o)]_vars

\* C25 witness: an option of another question has just been refused as not
\* found on a question of an exam in progress that is already answered.
C25_Witness ==
    /\ resp = Error("answer", 404, "option_not_found")
    /\ \E e \in DOMAIN exams :
          /\ exams[e].status = in_progress
          /\ \A q \in QuestionIdInputs \cap questions : AnswerRows(e, q) > 0

\* C26: every recorded answer selects an option of its own question and
\* caches the correctness flag of that option; an accepted answer_question
\* returns that flag as is_correct and the stored score as current_score.
C26_AnswerMatchesOption ==
    /\ [](\A a \in BagToSet(exam_answers) :
             /\ OptionQuestion(a.selected_option_id) = a.question_id
             /\ a.is_correct = OptionIsCorrect(a.selected_option_id))
    /\ [][\A u \in DOMAIN users, e \in ExamIdInputs, q \in QuestionIdInputs, o \in OptionIdInputs :
             (resp'.op = "answer" /\ resp'.status_code = 200 /\ AnswerQuestion(u, e, q, o))
             => /\ resp'.is_correct = OptionIsCorrect(o)
                /\ resp'.current_score = exams'[e].score
                /\ CopiesIn([exam_id |-> e, question_id |-> q, selected_option_id |-> o,
                             is_correct |-> OptionIsCorrect(o)], exam_answers') = 1]_vars

\* C26 witness: a wrong option has just been accepted and recorded.
C26_Witness ==
    /\ resp.op = "answer"
    /\ resp.status_code = 200
    /\ ~resp.is_correct
    /\ \E a \in BagToSet(exam_answers) :
          a.question_id \in QuestionIdInputs /\ ~a.is_correct

\* C27: every exam has at most EXAM_QUESTIONS_COUNT recorded answers, and
\* answer_question called right after start_exam for the new exam with a
\* catalog question that start_exam did not return is not accepted.
C27_OnlySampledQuestionsAnswered ==
    /\ [](\A e \in DOMAIN exams : AnswerCount(e) <= EXAM_QUESTIONS_COUNT)
    /\ [][\A u \in DOMAIN users, q \in QuestionIdInputs, o \in OptionIdInputs :
             ( /\ resp.op = "start"
               /\ resp.status_code = 201
               /\ resp'.op = "answer"
               /\ q \in questions \ resp.questions
               /\ AnswerQuestion(u, resp.exam_id, q, o) )
             => resp'.status_code # 200]_vars

\* C28: register creates the user with role user; the role of a user changes
\* only in a step of admin_update_user called by a user whose role is admin;
\* and once no user has role admin, no user ever gets it.
C28_NoPrivilegeEscalation ==
    [][/\ \A id \in DOMAIN users' \ DOMAIN users : users'[id].role = user
       /\ \A id \in DOMAIN users :
             users'[id].role # users[id].role
             => /\ resp'.op = "admin_update_user"
                /\ \E u \in DOMAIN users, data \in UpdateInputs :
                      users[u].role = admin /\ AdminUpdateUser(u, id, data)
       /\ (\A id \in DOMAIN users : users[id].role # admin)
             => (\A id \in DOMAIN users' : users'[id].role # admin)]_vars

\* C28 witness: an administrator has just promoted a registered user.
C28_Witness ==
    /\ resp.op = "admin_update_user"
    /\ resp.status_code = 200
    /\ \E id \in DOMAIN users : id > Len(SeededUsers) /\ users[id].role = admin

\* C29: logout of a token string leaves every refresh_token row with another
\* token string in place, a token of such a row that refresh accepted before
\* is accepted afterwards, and users, exams and answers are unchanged.
C29_LogoutLeavesOtherTokens ==
    [][\A token \in TokenInputs :
          (resp'.op = "logout" /\ Logout(token)) =>
              /\ \A row \in BagToSet(refresh_tokens) :
                    row.token # token =>
                        /\ CopiesIn(row, refresh_tokens') = CopiesIn(row, refresh_tokens)
                        /\ RefreshChecks(row.token) = Ok => (RefreshChecks(row.token) = Ok)'
              /\ BagToSet(refresh_tokens') \subseteq BagToSet(refresh_tokens)
              /\ UNCHANGED <<users, exams, exam_answers>>]_vars

\* C29 witness: after a logout the table still holds a token that refresh
\* accepts.
C29_Witness ==
    /\ resp.op = "logout"
    /\ \E row \in BagToSet(refresh_tokens) : RefreshChecks(row.token) = Ok

\* C30: sequentially, start_exam by a user who has a finished exam and none in
\* progress, with at least EXAM_QUESTIONS_COUNT questions in the catalog,
\* succeeds and appends an in_progress exam with score 0 and no answers, while
\* every existing exam and every recorded answer stay as they were.
C30_StartAfterFinish ==
    [][\A u \in DOMAIN users :
          ( /\ resp'.op = "start"
            /\ \E e \in DOMAIN exams : exams[e].user_id = u /\ Terminal(e)
            /\ ~HasActiveExam(u)
            /\ Cardinality(questions) >= EXAM_QUESTIONS_COUNT
            /\ StartExam(u) )
          => /\ resp'.status_code = 201
             /\ Len(exams') = Len(exams) + 1
             /\ exams'[Len(exams')].user_id = u
             /\ exams'[Len(exams')].status = in_progress
             /\ exams'[Len(exams')].score = 0
             /\ \A a \in BagToSet(exam_answers') : a.exam_id # Len(exams')
             /\ \A e \in DOMAIN exams : exams'[e] = exams[e]
             /\ exam_answers' = exam_answers]_vars

\* C30 witness: a user whose first exam is finished has just started another.
C30_Witness ==
    /\ resp.op = "start"
    /\ resp.status_code = 201
    /\ resp.exam_id > 1
    /\ \E e \in DOMAIN exams :
          /\ e < resp.exam_id
          /\ exams[e].user_id = exams[resp.exam_id].user_id
          /\ exams[e].finished_at # <<>>

\* C24: with interleaved requests, the commit of an accepted answer that chose
\* the correct option raises the stored score of its in_progress exam by one,
\* also when another answer to a different question of the same exam was
\* committed between its read and its write (every question of the exam has at
\* most one answer row, so the requests are for different questions).
C24_NoLostIncrement ==
    [][\A p \in Procs :
          ( /\ req[p].pc = "answer_commit"
            /\ req[p].is_correct
            /\ AnswerQuestionWrite(p)
            /\ exams[req[p].exam_id].status = in_progress
            /\ \A e \in {req[p].exam_id}, q \in EditIdInputs : (AnswerRows(e, q) <= 1)' )
          => exams'[req[p].exam_id].score = exams[req[p].exam_id].score + 1]_vars

\* C22: each of the seven admin-gated handlers (create, update, delete of a
\* question and of a category, admin update of a user), called by a user whose
\* role is not admin, answers 403 and leaves every table unchanged, whatever
\* the other arguments are (ids that exist or not, names that are taken or
\* not): a step that is not such a refusal is not a step of one of these
\* handlers called by a user whose role is not admin.
C22_NonAdminForbidden ==
    [][(resp'.status_code = 403 /\ UNCHANGED store)
       \/ \A u \in DOMAIN users :
             users[u].role # admin =>
                 /\ resp'.op = "create_question"
                       => \A data \in QuestionCreateInputs : ~CreateQuestion(u, data)
                 /\ resp'.op = "update_question"
                       => \A q \in CatalogQuestionInputs, data \in QuestionUpdateInputs :
                             ~UpdateQuestion(u, q, data)
                 /\ resp'.op = "delete_question"
                       => \A q \in CatalogQuestionInputs : ~DeleteQuestion(u, q)
                 /\ resp'.op = "create_category"
                       => \A name \in CategoryNames : ~CreateCategory(u, name)
                 /\ resp'.op = "update_category"
                       => \A c \in CategoryIdInputs, name \in CategoryNames :
                             ~UpdateCategory(u, c, name)
                 /\ resp'.op = "delete_category"
                       => \A c \in CategoryIdInputs : ~DeleteCategory(u, c)
                 /\ resp'.op = "admin_update_user"
                       => \A user_id \in UserIdInputs, data \in RoleUpdateInputs :
                             ~AdminUpdateUser(u, user_id, data)]_vars

\* C22 witness: after the administrator was demoted, a catalog request was
\* refused although its category no longer exists.
C22_Witness ==
    /\ resp.op = "delete_category"
    /\ resp.status_code = 403
    /\ category = <<>>
    /\ \A u \in DOMAIN users : users[u].role # admin

====
